---- MODULE Spec2Model ----
(***************************************************************************)
(* Model of the Pennylane billing synchronisation engine:                  *)
(*   - PennylaneClient._request          (retry / backoff / classification)*)
(*   - PennylaneSyncService.sync_*       (entity upserts, sync_all)        *)
(*   - sync_all_connections, scheduler   (periodic driver)                 *)
(* Sources: src/app/services/pennylane_service.py,                         *)
(*          src/app/tasks/pennylane_scheduler.py,                          *)
(*          src/app/models/pennylane.py, src/app/database.py               *)
(***************************************************************************)
EXTENDS Integers, Sequences, FiniteSets, TLC

Null == "null"

(***************************************************************************)
(* PennylaneClient: retry configuration (class attributes).                *)
(***************************************************************************)
MAX_RETRIES == 3

RETRY_DELAY_SECONDS == 1

RETRY_BACKOFF_MULTIPLIER == 2

RETRYABLE_STATUS_CODES == {429, 503}

RECURSIVE Pow(_, _)
Pow(b, n) == IF n = 0 THEN 1 ELSE b * Pow(b, n - 1)

\* wait_time = RETRY_DELAY_SECONDS * (RETRY_BACKOFF_MULTIPLIER ** retry_count)
BackoffMut(retry_count) == RETRY_DELAY_SECONDS * (retry_count + 1)

Backoff(retry_count) == RETRY_DELAY_SECONDS * Pow(RETRY_BACKOFF_MULTIPLIER, retry_count)

\* retry_count < self.MAX_RETRIES
CanRetryMut(retry_count) == retry_count <= MAX_RETRIES

CanRetry(retry_count) == retry_count < MAX_RETRIES

\* response.status_code in (401, 403)
IsAuthStatusMut(status) == status = 401

IsAuthStatus(status) == status \in {401, 403}

(***************************************************************************)
(* The Retry-After header is a string (here a sequence of characters) or   *)
(* absent.  int() accepts decimal digits and raises ValueError otherwise.  *)
(***************************************************************************)
Absent == <<"absent">>

ValueError == "ValueError"

Digits == <<"0", "1", "2", "3", "4", "5", "6", "7", "8", "9">>

IsDigit(ch) == \E i \in 1..10 : Digits[i] = ch

DigitVal(ch) == (CHOOSE i \in 1..10 : Digits[i] = ch) - 1

RECURSIVE ParseDigits(_, _)
ParseDigits(s, acc) ==
    IF s = <<>> THEN acc
    ELSE ParseDigits(Tail(s), acc * 10 + DigitVal(Head(s)))

\* int(retry_after): the integer a digit string denotes, ValueError otherwise
ParseInt(s) ==
    IF s # <<>> /\ \A i \in 1..Len(s) : IsDigit(s[i])
    THEN [err |-> FALSE, v |-> ParseDigits(s, 0)]
    ELSE [err |-> TRUE, v |-> 0]

\* Python truthiness of a header value: None and "" are falsy
TruthyStr(h) == h # Absent /\ h # <<>>

\* Optional[int]: None is <<>>, the integer n is <<n>>
None == <<>>

Some(n) == <<n>>

\* retry_after_seconds = int(retry_after) if retry_after else None
RetryAfterSeconds(h) == IF TruthyStr(h) THEN Some(ParseInt(h).v) ELSE None

\* int(retry_after) raises ValueError
RetryAfterRaises(h) == TruthyStr(h) /\ ParseInt(h).err

\* Python truthiness of Optional[int]: None and 0 are falsy
TruthyInt(o) == o # None /\ o[1] # 0

\* wait_time = retry_after_seconds or (RETRY_DELAY_SECONDS * MULT ** retry_count)
RateLimitWaitMut(ras, retry_count) == Backoff(retry_count)

RateLimitWait(ras, retry_count) ==
    IF TruthyInt(ras) THEN ras[1] ELSE Backoff(retry_count)

\* Values of the Retry-After header the remote may send.
RetryAfterHeaders == {Absent, <<>>, <<"0">>, <<"5">>, <<"1", "2">>, <<"x">>}

\* Status codes the remote may answer with.
Statuses == {200, 204, 401, 403, 404, 429, 500, 503}

\* Bodies of a 200 response: response.json() parses the first only.
Bodies == {"json", "garbage"}

\* What one HTTP attempt can produce: a response, or an httpx exception.
Responses ==
    [kind : {"response"}, status : Statuses \ {429, 200}, hdr : {Absent}, body : {"json"}]
    \cup [kind : {"response"}, status : {429}, hdr : RetryAfterHeaders, body : {"json"}]
    \cup [kind : {"response"}, status : {200}, hdr : {Absent}, body : Bodies]
    \cup [kind : {"timeout", "request_error"}, status : {0}, hdr : {Absent}, body : {"json"}]

\* Connections (tenants) configured in the store.
Conns == {"A", "B"}

(***************************************************************************)
(* Scheduler configuration and bounds.                                     *)
(***************************************************************************)
\* add_job(..., max_instances=1, coalesce=True)
max_instances == 1

coalesce == TRUE

\* Run times of the interval trigger that come due in one behaviour.
MaxTicks == 3

\* Store queries of sync_all_connections that may raise in one behaviour.
MaxSchedFaults == 1

\* Job instances the model can hold at once (one more than max_instances,
\* so that an overlap would be visible).
TickSlots == 1..2

(***************************************************************************)
(* Sync service: entity kinds, remote records and bounds.                  *)
(***************************************************************************)
Kinds == {"customers", "invoices", "quotes", "subscriptions"}

\* sync_all: customers, customer lookup, invoices, quotes, subscriptions,
\* status update, in this order
Stages == <<"customers", "lookup", "invoices", "quotes", "subscriptions", "status">>

\* Remote ids as the syncers see them after str(); "" when the key is absent.
NoId == ""

Ids == {"1", "2"}

\* Records one endpoint call of the remote may list.
MaxRecs == 2

\* sync_all runs started in one behaviour.
MaxRuns == 2

\* Failures injected in one behaviour: page fetches that raise a client
\* error, and store operations (query, commit) that raise.
MaxFaults == 1

\* Callers of sync_all: the scheduler tick and the manual trigger.
Runners == {"sched", "manual"}

VARIABLES req, pager, pages, scheduler, schedEnabled, ticks, due, fired, starts, submits,
          skipped, schedFaults, connRows,
          flags, remote, lastSync, tables, nextId, clock, run, runs,
          faults, lastClean

varsReq == <<req, pager, pages>>

varsSched == <<scheduler, schedEnabled, ticks, due, fired, starts, submits,
               skipped, schedFaults, connRows>>

varsSync == <<flags, remote, lastSync, tables, nextId, clock, run, runs,
              faults, lastClean>>

vars == <<req, pager, pages, scheduler, schedEnabled, ticks, due, fired, starts, submits,
          skipped, schedFaults, connRows,
          flags, remote, lastSync, tables, nextId, clock, run, runs,
          faults, lastClean>>

ReqIdle ==
    [pc |-> "idle", retry_count |-> 0, log |-> <<>>, waits |-> <<>>,
     wait_time |-> 0, exc |-> Null, exc_retry_after |-> None, result |-> Null]

(***************************************************************************)
(* fetch_all_pages: the remote serves the pages of one endpoint in order;   *)
(* a page is the envelope {items, has_more, next_cursor}.                   *)
(***************************************************************************)
\* per_page = min(per_page, 100): sizes of the pages a remote may serve
PageSizes == {0, 37, 100}

\* next_cursor: null, the empty string, or a cursor
Cursors == {Null, "", "cur"}

\* Pages one endpoint holds.
MaxPages == 3

PageSet == [n : PageSizes, has_more : BOOLEAN, next_cursor : Cursors]

PagePlans == UNION {[1..k -> PageSet] : k \in 0..MaxPages}

\* response.get("items", []) of a response beyond the last page
EmptyPage == [n |-> 0, has_more |-> FALSE, next_cursor |-> Null]

\* cursor = None; page_num = 0
PagerNew ==
    [pc |-> "running", cursor |-> Null, page_num |-> 0, yielded |-> <<>>,
     per_page_arg |-> 100, requests |-> <<>>]

\* values of the per_page argument a caller may pass
PerPageArgs == {50, 100, 250}

\* cursors that tell one page from the other
PageSetCursors == [n : {0, 2}, has_more : BOOLEAN, next_cursor : {Null, "", "c1", "c2"}]

CursorPlans == UNION {[1..k -> PageSetCursors] : k \in 0..MaxPages}

InitPager == pager = PagerNew /\ pages = <<>>

InitReq == req = ReqIdle /\ InitPager


TickIdle ==
    [pc |-> "idle", conns |-> <<>>, i |-> 0, open |-> {}, outcome |-> <<>>,
     results |-> {}, runsLeft |-> 0]

\* _scheduler = None; orphans counts scheduler objects that are running but
\* no longer referenced by _scheduler
SchedulerNone == [created |-> FALSE, running |-> FALSE, jobs |-> 0, orphans |-> 0]

InitSchedVars ==
    /\ scheduler = SchedulerNone
    /\ ticks = [t \in TickSlots |-> TickIdle]
    /\ due = 0
    /\ fired = 0
    /\ starts = 0
    /\ submits = 0
    /\ skipped = 0
    /\ schedFaults = 0

(***************************************************************************)
(* Sync service state.  tables holds the committed rows of the four entity *)
(* tables, lastSync the committed last_sync_* fields of each connection,   *)
(* run the progress and the session of each caller of sync_all.            *)
(***************************************************************************)
Recs ==
    {[id |-> "1", name |-> "Acme", cust |-> "2"],
     [id |-> "2", name |-> Null, cust |-> "1"],
     [id |-> NoId, name |-> "Ghost", cust |-> Null]}

RecB == [id |-> "1", name |-> "Bolt", cust |-> "1"]

\* JSON null as the value of a key
JsonNull == "json_null"

\* a record that carries "id": null
RecNullId == [id |-> JsonNull, name |-> "Nemo", cust |-> "1"]

\* a customer whose billing_address is a string, not an object
RecBadField == [id |-> "2", name |-> "Dora", cust |-> Null, billing_address |-> "text"]

\* customers with and without the "email" key and the "emails" list
EmailRecs ==
    {[id |-> "1", name |-> "Acme", cust |-> Null],
     [id |-> "1", name |-> "Acme", cust |-> Null, email |-> "a@x"],
     [id |-> "1", name |-> "Acme", cust |-> Null, email |-> "a@x", emails |-> <<>>],
     [id |-> "1", name |-> "Acme", cust |-> Null, email |-> "a@x", emails |-> <<"b@x">>],
     [id |-> "1", name |-> "Acme", cust |-> Null, email |-> "", emails |-> <<"b@x">>],
     [id |-> "1", name |-> "Acme", cust |-> Null, email |-> Null, emails |-> <<"b@x", "c@x">>],
     [id |-> "1", name |-> "Acme", cust |-> Null, emails |-> <<"b@x">>],
     [id |-> "1", name |-> "Acme", cust |-> Null, email |-> ""]}

\* an item of a page that is not an object (a string, a number, null)
RecNotDict == [not_dict |-> TRUE]

DataSeqsMalformed ==
    UNION {[1..n -> Recs \cup {RecBadField, RecNotDict}] : n \in 0..MaxRecs}

DataSeqsWithNull == UNION {[1..n -> Recs \cup {RecNullId}] : n \in 0..MaxRecs}

DataSeqs == UNION {[1..n -> Recs] : n \in 0..MaxRecs}

\* last_sync_error is NULL
NoText == <<>>

\* SyncResult(entity_type=...)
NewResult ==
    [total_fetched |-> 0, created |-> 0, updated |-> 0, errors |-> <<>>,
     success |-> TRUE]

\* session without pending objects, modified objects or failed transaction
CleanSession == [pending |-> <<>>, dirty |-> <<>>, failed |-> FALSE]

RunIdle ==
    [phase |-> "idle", conn |-> "A", stage |-> 0, pos |-> 0,
     session |-> CleanSession, result |-> NewResult, results |-> <<>>,
     all_success |-> TRUE, errors |-> <<>>, customer_lookup |-> <<>>,
     attempted |-> <<>>, began |-> 0, snap |-> {}, prevClean |-> FALSE,
     faulted |-> FALSE, http |-> 0]

InitSyncVars ==
    /\ lastSync = [c \in Conns |-> [at |-> 0, status |-> Null, error |-> NoText]]
    /\ tables = [k \in Kinds |-> {}]
    /\ nextId = 1
    /\ clock = 0
    /\ run = [r \in Runners |-> RunIdle]
    /\ runs = 0
    /\ faults = 0
    /\ lastClean = [c \in Conns |-> FALSE]

\* connection B: customers and invoices enabled, one remote record
FixedConfig ==
    /\ flags = [c \in Conns |-> {"customers", "invoices"}]
    /\ remote = [c \in Conns |-> <<RecB>>]

\* _request(method, endpoint, params, retry_count=0) is called
CallRequest ==
    /\ req.pc \in {"idle", "returned", "raised"}
    /\ req' = [ReqIdle EXCEPT !.pc = "sending"]
    /\ UNCHANGED <<pager, pages, varsSched, varsSync>>

Raise(r, e, ra) == [r EXCEPT !.pc = "raised", !.exc = e, !.exc_retry_after = ra]

Retry(r, w) ==
    [r EXCEPT !.pc = "sleeping", !.wait_time = w, !.waits = Append(@, w)]

\* lines 201-268: what _request does with the outcome of client.request()
Classify(r, resp) ==
    IF resp.kind = "timeout" THEN
        IF CanRetry(r.retry_count) THEN Retry(r, Backoff(r.retry_count))
        ELSE Raise(r, "PennylaneAPIError", None)
    ELSE IF resp.kind = "request_error" THEN Raise(r, "PennylaneAPIError", None)
    ELSE IF resp.status = 200 THEN
        IF resp.body = "json" THEN [r EXCEPT !.pc = "returned", !.result = "body"]
        ELSE Raise(r, ValueError, None)
    ELSE IF IsAuthStatus(resp.status) THEN Raise(r, "PennylaneAuthError", None)
    ELSE IF resp.status = 429 THEN
        LET ras == RetryAfterSeconds(resp.hdr) IN
        IF RetryAfterRaises(resp.hdr) THEN Raise(r, ValueError, None)
        ELSE IF CanRetry(r.retry_count)
             THEN Retry(r, RateLimitWait(ras, r.retry_count))
             ELSE Raise(r, "PennylaneRateLimitError", ras)
    ELSE IF resp.status = 503 /\ CanRetry(r.retry_count)
         THEN Retry(r, Backoff(r.retry_count))
    ELSE Raise(r, "PennylaneAPIError", None)

\* response = await client.request(method, url, params=params)
Respond ==
    /\ req.pc = "sending"
    /\ \E resp \in Responses :
         req' = Classify([req EXCEPT !.log = Append(@, resp)], resp)
    /\ UNCHANGED <<pager, pages, varsSched, varsSync>>

\* await asyncio.sleep(wait_time); return await self._request(..., retry_count + 1)
Wake ==
    /\ req.pc = "sleeping"
    /\ req' = [req EXCEPT !.pc = "sending", !.retry_count = @ + 1]
    /\ UNCHANGED <<pager, pages, varsSched, varsSync>>

NextReq == CallRequest \/ Respond \/ Wake

InitRequest ==
    /\ InitReq
    /\ InitSchedVars
    /\ InitSyncVars
    /\ FixedConfig
    /\ schedEnabled = FALSE
    /\ connRows = [c \in Conns |-> [exists |-> TRUE, is_active |-> TRUE]]

SpecRequest == InitRequest /\ [][NextReq]_vars

\* client.request() ends (the httpx client has a timeout) and
\* asyncio.sleep() returns
SpecRequestLive == SpecRequest /\ WF_vars(Respond) /\ WF_vars(Wake)

(***************************************************************************)
(* fetch_all_pages (lines 425-488): one action per turn of the while loop.  *)
(***************************************************************************)
\* response = await self._request("GET", endpoint, params=params)
Served(k) == IF k <= Len(pages) THEN pages[k] ELSE EmptyPage

\* the items of page k, in the order of the page
PageItems(k, n) == [i \in 1..n |-> <<k, i>>]

\* if cursor: / if has_more and next_cursor: (None and "" are falsy)
TruthyCursor(c) == c # Null /\ c # ""

\* if has_more and next_cursor
MorePagesMut(response) == response.has_more

MorePages(response) == response.has_more /\ TruthyCursor(response.next_cursor)

\* per_page = min(per_page, 100)
CapPerPage(arg) == IF arg < 100 THEN arg ELSE 100

\* if cursor: params["cursor"] = cursor
CursorParamMut(cursor) == Null

CursorParam(cursor) == IF TruthyCursor(cursor) THEN cursor ELSE Null

\* params of the page request, and how many items the consumer has got
PageRequest(pg) ==
    [cursor |-> CursorParam(pg.cursor), per_page |-> CapPerPage(pg.per_page_arg),
     yielded |-> Len(pg.yielded)]

\* one turn of the loop: fetch a page, yield its items, decide to go on
FetchPage ==
    /\ pager.pc = "running"
    /\ LET page_num == pager.page_num + 1
           response == Served(page_num)
           items    == PageItems(page_num, response.n)
           sent     == [pager EXCEPT !.requests = Append(@, PageRequest(pager))]
       IN  pager' =
             IF items = <<>>
             THEN [sent EXCEPT !.page_num = page_num, !.pc = "stopped"]
             ELSE IF MorePages(response)
             THEN [sent EXCEPT !.page_num = page_num, !.yielded = @ \o items,
                               !.cursor = response.next_cursor]
             ELSE [sent EXCEPT !.page_num = page_num, !.yielded = @ \o items,
                               !.pc = "stopped"]
    /\ UNCHANGED <<req, pages, varsSched, varsSync>>

\* _request raises: the exception leaves the generator
FetchPageRaises ==
    /\ pager.pc = "running"
    /\ pager' = [pager EXCEPT !.page_num = @ + 1, !.pc = "raised",
                              !.requests = Append(@, PageRequest(pager))]
    /\ UNCHANGED <<req, pages, varsSched, varsSync>>

NextPages == FetchPage \/ FetchPageRaises

InitPages ==
    /\ req = ReqIdle
    /\ pager = PagerNew
    /\ pages \in PagePlans
    /\ InitSchedVars
    /\ InitSyncVars
    /\ FixedConfig
    /\ schedEnabled = FALSE
    /\ connRows = [c \in Conns |-> [exists |-> TRUE, is_active |-> TRUE]]

SpecPages == InitPages /\ [][NextPages]_vars

\* traversals of pages with distinguishable cursors, for any per_page
InitCursors ==
    /\ req = ReqIdle
    /\ pager \in {[PagerNew EXCEPT !.per_page_arg = a] : a \in PerPageArgs}
    /\ pages \in CursorPlans
    /\ InitSchedVars
    /\ InitSyncVars
    /\ FixedConfig
    /\ schedEnabled = FALSE
    /\ connRows = [c \in Conns |-> [exists |-> TRUE, is_active |-> TRUE]]

SpecCursors == InitCursors /\ [][NextPages]_vars

(***************************************************************************)
(* Properties of fetch_all_pages.                                          *)
(***************************************************************************)
\* page fetches that returned a response
Fetched == IF pager.pc = "raised" THEN pager.page_num - 1 ELSE pager.page_num

RECURSIVE ItemsUpTo(_)
ItemsUpTo(k) ==
    IF k = 0 THEN <<>> ELSE ItemsUpTo(k - 1) \o PageItems(k, Served(k).n)

LastPageAsClaimed(page) == page.n = 0 \/ ~page.has_more

LastPage(page) == LastPageAsClaimed(page) \/ ~TruthyCursor(page.next_cursor)

FirstLastPageAsClaimed ==
    CHOOSE k \in 1..(Len(pages) + 1) :
        /\ LastPageAsClaimed(Served(k))
        /\ \A j \in 1..(k - 1) : ~LastPageAsClaimed(Served(j))

FirstLastPage ==
    CHOOSE k \in 1..(Len(pages) + 1) :
        /\ LastPage(Served(k))
        /\ \A j \in 1..(k - 1) : ~LastPage(Served(j))

ExamplePages ==
    /\ Len(pages) = 3
    /\ <<pages[1].n, pages[2].n, pages[3].n>> = <<100, 100, 37>>
    /\ <<pages[1].has_more, pages[2].has_more, pages[3].has_more>> = <<TRUE, TRUE, FALSE>>

Example237 ==
    (ExamplePages /\ pager.pc = "stopped") =>
        (Len(pager.yielded) = 237 /\ pager.page_num = 3)

\* C13 (as claimed): the iterator yields the items of the fetched pages once
\* each and in page order, fetches pages up to the first one that has no
\* items or has has_more = false and none after it; pages of sizes
\* [100, 100, 37] with has_more [true, true, false] give 237 items in 3
\* fetches.
C13_StopsAtFirstLastPage ==
    /\ pager.yielded = ItemsUpTo(Fetched)
    /\ pager.page_num <= FirstLastPageAsClaimed
    /\ pager.pc = "stopped" => pager.page_num = FirstLastPageAsClaimed
    /\ pager.pc = "running" => pager.page_num < FirstLastPageAsClaimed
    /\ Example237

\* C13 (amended): as above, where the last page is the first one that has no
\* items, has has_more = false, or carries no next_cursor; the example needs
\* a next_cursor on its first two pages.
C13_StopsAtFirstPageWithoutSuccessor ==
    /\ pager.yielded = ItemsUpTo(Fetched)
    /\ pager.page_num <= FirstLastPage
    /\ pager.pc = "stopped" => pager.page_num = FirstLastPage
    /\ pager.pc = "running" => pager.page_num < FirstLastPage
    /\ (ExamplePages /\ pager.pc = "stopped" /\ TruthyCursor(pages[1].next_cursor)
            /\ TruthyCursor(pages[2].next_cursor))
          => (Len(pager.yielded) = 237 /\ pager.page_num = 3)

\* C13 witness: the three pages of the example were fetched and the
\* iterator has stopped after 237 items.
C13_Witness ==
    /\ ExamplePages
    /\ pager.pc = "stopped"
    /\ pager.page_num = 3
    /\ Len(pager.yielded) = 237

\* C22: one request per page; the first carries no cursor, each later one
\* the next_cursor of the response before it; every request carries
\* per_page <= 100 (the caller's value when that is smaller); and a request
\* goes out only when all items of the earlier pages have been yielded.
C22_CursorChaining ==
    /\ Len(pager.requests) = pager.page_num
    /\ \A k \in 1..Len(pager.requests) :
          LET rq == pager.requests[k] IN
          /\ k = 1 => rq.cursor = Null
          /\ k > 1 => (rq.cursor = Served(k - 1).next_cursor /\ rq.cursor # Null
                         /\ rq.cursor # "")
          /\ rq.per_page <= 100
          /\ pager.per_page_arg <= 100 => rq.per_page = pager.per_page_arg
          /\ rq.yielded = Len(ItemsUpTo(k - 1))

\* C22 witness: a third page was requested with the cursor of the second
\* response, which differs from the cursor of the first, by a caller that
\* asked for 250 items per page.
C22_Witness ==
    /\ Len(pager.requests) = 3
    /\ pager.per_page_arg = 250
    /\ pager.requests[2].cursor = "c1"
    /\ pager.requests[3].cursor = "c2"
    /\ pager.requests[3].yielded = 4

(***************************************************************************)
(* Properties of _request.  req.log is the sequence of outcomes of the     *)
(* HTTP attempts of the current call, req.waits the sleeps between them.   *)
(***************************************************************************)
Min(a, b) == IF a < b THEN a ELSE b

IsResponse(resp, codes) == resp.kind = "response" /\ resp.status \in codes

Non2xx(resp) == resp.kind = "response" /\ (resp.status < 200 \/ resp.status > 299)

Transient(resp) == resp.kind = "timeout" \/ IsResponse(resp, {503})

AllTransient(log, n) == \A i \in 1..n : Transient(log[i])

LastOfCall(i) == i = Len(req.log) /\ req.pc = "raised"

\* C8: a 401/403 response ends the call with PennylaneAuthError and any other
\* non-2xx response except 429/503 ends it with PennylaneAPIError; the
\* response is the last HTTP attempt of the call, whatever came before it.
C8_FatalStatusFailsAtOnce ==
    \A i \in 1..Len(req.log) :
        LET resp == req.log[i] IN
        /\ IsResponse(resp, {401, 403}) =>
               LastOfCall(i) /\ req.exc = "PennylaneAuthError"
        /\ (Non2xx(resp) /\ resp.status \notin {401, 403, 429, 503}) =>
               LastOfCall(i) /\ req.exc = "PennylaneAPIError"

\* C8 witness: a 403 received after two retries has ended the call.
C8_Witness ==
    /\ Len(req.log) = 3
    /\ req.retry_count = 2
    /\ IsResponse(req.log[3], {403})
    /\ req.pc = "raised"

\* C9: a call that saw only 503s and timeouts slept 1, 2, 4 seconds before
\* its 1st, 2nd, 3rd retry, made at most 4 attempts and raised
\* PennylaneAPIError on the 4th failure; a 200 with a JSON body after only
\* 503s and timeouts returns the parsed body without error.
C9_TransientRetriedThreeTimes ==
    LET n == Len(req.log) IN
    /\ AllTransient(req.log, n) =>
          /\ n <= 4
          /\ req.waits = SubSeq(<<1, 2, 4>>, 1, Min(n, 3))
          /\ (n = 4) => (req.pc = "raised" /\ req.exc = "PennylaneAPIError")
          /\ (n < 4) => req.pc \in {"idle", "sending", "sleeping"}
    /\ (n > 0 /\ AllTransient(req.log, n - 1)
            /\ IsResponse(req.log[n], {200}) /\ req.log[n].body = "json") =>
          /\ n <= 4
          /\ req.pc = "returned" /\ req.result = "body" /\ req.exc = Null
          /\ req.waits = SubSeq(<<1, 2, 4>>, 1, n - 1)

\* C9 witness: three retries of 503/timeout were used up and the 4th attempt
\* failed as well.
C9_Witness ==
    /\ Len(req.log) = 4
    /\ AllTransient(req.log, 4)
    /\ req.log[1].kind = "timeout" /\ IsResponse(req.log[4], {503})
    /\ req.pc = "raised"

IntegerHeader(h) == TruthyStr(h) /\ ~ParseInt(h).err

\* C10 (as claimed): every 429 that is retried and carries an integer
\* Retry-After v is followed by a wait of exactly v seconds, and a retried
\* 429 without the header by the exponential backoff.
C10_RetryAfterHonoured ==
    \A i \in 1..Len(req.waits) :
        LET resp == req.log[i] IN
        IsResponse(resp, {429}) =>
            /\ IntegerHeader(resp.hdr) => req.waits[i] = ParseInt(resp.hdr).v
            /\ (resp.hdr = Absent) => req.waits[i] = Backoff(i - 1)

\* the Retry-After value a 429 response carries: the integer, or none
HeaderValue(h) == IF IntegerHeader(h) THEN Some(ParseInt(h).v) ELSE None

\* C11 (as claimed): a 429 received on the attempt after the 3rd retry ends
\* the call with PennylaneRateLimitError whose retry_after is the
\* Retry-After value of that response, or None when it carried none.
C11_RateLimitErrorCarriesRetryAfter ==
    (Len(req.log) = MAX_RETRIES + 1 /\ IsResponse(req.log[Len(req.log)], {429})) =>
        /\ req.pc = "raised"
        /\ req.exc = "PennylaneRateLimitError"
        /\ req.exc_retry_after = HeaderValue(req.log[Len(req.log)].hdr)

ClientErrors == {"PennylaneAuthError", "PennylaneRateLimitError", "PennylaneAPIError"}

\* C12 (as claimed): a call of _request returns the parsed body or raises
\* PennylaneAuthError, PennylaneRateLimitError or PennylaneAPIError (which
\* also stands for transport failures); no other exception escapes it.
C12_OnlyClientErrorsEscape ==
    /\ req.pc = "raised" => req.exc \in ClientErrors
    /\ req.pc = "returned" => req.result = "body"

(***************************************************************************)
(* Scheduler: start_scheduler registers sync_all_connections as one        *)
(* interval job on an AsyncIOScheduler; each due run time is handed to the *)
(* executor when the scheduler wakes up.                                   *)
(***************************************************************************)
InitSched ==
    /\ InitReq
    /\ InitSchedVars
    /\ InitSyncVars
    /\ FixedConfig
    /\ schedEnabled \in BOOLEAN
    /\ connRows \in [Conns -> [exists : {TRUE}, is_active : BOOLEAN]]

\* _scheduler = AsyncIOScheduler(); add_job(...); start(): the object that
\* _scheduler referred to is let go of
NewScheduler(old) ==
    [created |-> TRUE, running |-> TRUE, jobs |-> 1,
     orphans |-> old.orphans + (IF old.running THEN 1 ELSE 0)]

\* if _scheduler is not None and _scheduler.running: return
AlreadyRunningMut(sch) == FALSE

AlreadyRunning(sch) == sch.created /\ sch.running

\* start_scheduler()
StartScheduler ==
    /\ IF ~schedEnabled THEN UNCHANGED scheduler
       ELSE IF AlreadyRunning(scheduler) THEN UNCHANGED scheduler
       ELSE scheduler' = NewScheduler(scheduler)
    /\ UNCHANGED <<varsSync, varsReq, schedEnabled, ticks, due, fired, starts, submits,
                   skipped, schedFaults, connRows>>

\* IntervalTrigger(hours=interval_hours): one more run time of the job passes
TimerDue ==
    /\ scheduler.running
    /\ scheduler.jobs > 0
    /\ fired < MaxTicks
    /\ fired' = fired + 1
    /\ due' = due + 1
    /\ UNCHANGED <<varsSync, varsReq, scheduler, schedEnabled, ticks, starts, submits,
                   skipped, schedFaults, connRows>>

InFlight == {t \in TickSlots : ticks[t].pc \notin {"idle", "done", "cancelled"}}

\* executor: self._instances[job.id] >= job.max_instances raises
\* MaxInstancesReachedError, the run is logged as skipped
HasCapacityMut(n) == n < max_instances + 1

HasCapacity(n) == n < max_instances

\* run_times = run_times[-1:] if job.coalesce
RunTimesMut(n) == n

RunTimes(n) == IF coalesce THEN 1 ELSE n

\* the scheduler wakes up and processes the due run times of the job
ProcessJobs ==
    /\ scheduler.running
    /\ due > 0
    /\ due' = 0
    /\ IF HasCapacity(Cardinality(InFlight))
       THEN \E t \in TickSlots :
              /\ t \notin InFlight
              /\ \A u \in TickSlots \ InFlight : t <= u
              /\ ticks' = [ticks EXCEPT ![t] =
                     [TickIdle EXCEPT !.pc = "load", !.open = {"db"},
                                      !.runsLeft = RunTimes(due)]]
              /\ submits' = submits + 1
              /\ starts' = starts + 1
              /\ UNCHANGED skipped
       ELSE /\ skipped' = skipped + 1
            /\ UNCHANGED <<ticks, submits, starts>>
    /\ UNCHANGED <<varsSync, varsReq, scheduler, schedEnabled, fired, schedFaults, connRows>>

RECURSIVE Perms(_)
Perms(S) ==
    IF S = {} THEN {<<>>}
    ELSE UNION {{<<x>> \o p : p \in Perms(S \ {x})} : x \in S}

\* db.query(PennylaneConnection).filter(is_active == True).all()
ActiveConnections == {c \in Conns : connRows[c].exists /\ connRows[c].is_active}

\* return results: finally db.close(); the executor then runs the job again
\* for the next of its run times, if it was handed more than one
EndTick(tk) ==
    IF tk.runsLeft > 1
    THEN [TickIdle EXCEPT !.pc = "load", !.open = {"db"},
                          !.runsLeft = tk.runsLeft - 1]
    ELSE [tk EXCEPT !.pc = "done", !.open = @ \ {"db"}, !.runsLeft = 0]

Restarted(tk) == IF tk.runsLeft > 1 THEN 1 ELSE 0

\* lines 117-123: finally sync_db.close(); on an exception: log, continue
NextConnectionMut(tk, what) ==
    LET closed == [tk EXCEPT !.open = @ \ {"sync_db"},
                             !.outcome = Append(@, what)] IN
    IF tk.i = Len(tk.conns) \/ what \in {"load_raised", "sync_raised"}
    THEN EndTick(closed)
    ELSE [closed EXCEPT !.pc = "fetch", !.i = @ + 1]

NextConnection(tk, what) ==
    LET closed == [tk EXCEPT !.open = @ \ {"sync_db"},
                             !.outcome = Append(@, what)] IN
    IF tk.i = Len(tk.conns) THEN EndTick(closed)
    ELSE [closed EXCEPT !.pc = "fetch", !.i = @ + 1]

\* lines 67-81: load every active connection
LoadConnections(t) ==
    /\ ticks[t].pc = "load"
    /\ \/ /\ \E cs \in Perms(ActiveConnections) :
               IF cs = <<>>
               THEN /\ ticks' = [ticks EXCEPT ![t] = EndTick(@)]
                    /\ starts' = starts + Restarted(ticks[t])
               ELSE /\ ticks' = [ticks EXCEPT ![t] =
                           [@ EXCEPT !.pc = "fetch", !.conns = cs, !.i = 1]]
                    /\ UNCHANGED starts
          /\ UNCHANGED schedFaults
       \/ /\ schedFaults < MaxSchedFaults
          /\ schedFaults' = schedFaults + 1
          /\ ticks' = [ticks EXCEPT ![t] = EndTick(@)]
          /\ starts' = starts + Restarted(ticks[t])
    /\ UNCHANGED <<varsSync, varsReq, scheduler, schedEnabled, due, fired, submits, skipped,
                   connRows>>

\* lines 87-101: sync_db = SessionLocal(); re-fetch the connection by id
FetchConnection(t) ==
    LET tk == ticks[t]
        c == tk.conns[tk.i]
        opened == [tk EXCEPT !.open = @ \cup {"sync_db"}] IN
    /\ tk.pc = "fetch"
    /\ \/ /\ connRows[c].exists
          /\ ticks' = [ticks EXCEPT ![t] = [opened EXCEPT !.pc = "sync"]]
          /\ UNCHANGED <<schedFaults, starts>>
       \/ /\ ~connRows[c].exists
          /\ ticks' = [ticks EXCEPT ![t] = NextConnection(opened, "missing")]
          /\ starts' = starts + (IF tk.i = Len(tk.conns) THEN Restarted(tk) ELSE 0)
          /\ UNCHANGED schedFaults
       \/ /\ schedFaults < MaxSchedFaults
          /\ schedFaults' = schedFaults + 1
          /\ ticks' = [ticks EXCEPT ![t] = NextConnection(opened, "load_raised")]
          /\ starts' = starts + (IF tk.i = Len(tk.conns) THEN Restarted(tk) ELSE 0)
    /\ UNCHANGED <<varsSync, varsReq, scheduler, schedEnabled, due, fired, submits, skipped,
                   connRows>>

\* lines 103-105: sync_results = await sync_service.sync_all() returns
SyncAllReturns(t) ==
    LET tk == ticks[t]
        c == tk.conns[tk.i] IN
    /\ tk.pc = "sync"
    /\ ticks' = [ticks EXCEPT ![t] =
           NextConnection([tk EXCEPT !.results = @ \cup {c}], "synced")]
    /\ starts' = starts + (IF tk.i = Len(tk.conns) THEN Restarted(tk) ELSE 0)
    /\ UNCHANGED <<varsSync, varsReq, scheduler, schedEnabled, due, fired, submits, skipped,
                   schedFaults, connRows>>

\* lines 104, 120-123: sync_all() raises (its own status commit failed)
SyncAllRaises(t) ==
    LET tk == ticks[t] IN
    /\ tk.pc = "sync"
    /\ ticks' = [ticks EXCEPT ![t] = NextConnection(tk, "sync_raised")]
    /\ starts' = starts + (IF tk.i = Len(tk.conns) THEN Restarted(tk) ELSE 0)
    /\ UNCHANGED <<varsSync, varsReq, scheduler, schedEnabled, due, fired, submits, skipped,
                   schedFaults, connRows>>

\* delete_connection (API layer) removes a connection row
DeleteConnection(c) ==
    /\ connRows[c].exists
    /\ connRows' = [connRows EXCEPT ![c].exists = FALSE]
    /\ UNCHANGED <<varsSync, varsReq, scheduler, schedEnabled, ticks, due, fired, starts,
                   submits, skipped, schedFaults>>

NextSched ==
    \/ StartScheduler
    \/ TimerDue
    \/ ProcessJobs
    \/ \E t \in TickSlots : LoadConnections(t)
    \/ \E t \in TickSlots : FetchConnection(t)
    \/ \E t \in TickSlots : SyncAllReturns(t)
    \/ \E t \in TickSlots : SyncAllRaises(t)
    \/ \E c \in Conns : DeleteConnection(c)

SpecSched == InitSched /\ [][NextSched]_vars

\* PUT /connections/{connection_id} (api/pennylane.py 430-472) with
\* is_active in the body
UpdateConnectionActive(c, b) ==
    /\ connRows[c].exists
    /\ connRows[c].is_active # b
    /\ connRows' = [connRows EXCEPT ![c].is_active = b]
    /\ UNCHANGED <<varsSync, varsReq, scheduler, schedEnabled, ticks, due, fired, starts,
                   submits, skipped, schedFaults>>

NextActivation ==
    \/ NextSched
    \/ \E c \in Conns, b \in BOOLEAN : UpdateConnectionActive(c, b)

SpecActivation == InitSched /\ [][NextActivation]_vars

\* AsyncIOExecutor.shutdown(wait): "There is no way to honor wait=True":
\* every pending future is cancelled; the CancelledError unwinds the tick
\* through its finally blocks, which close the sessions
Cancelled(tk) ==
    [tk EXCEPT !.pc = "cancelled", !.open = {}, !.runsLeft = 0,
               !.outcome = Append(@, "cancelled")]

\* BaseScheduler.shutdown: state = STOPPED, executors are shut down, the
\* timer is stopped; then _scheduler = None
Shutdown(sch) == [SchedulerNone EXCEPT !.orphans = sch.orphans]

\* stop_scheduler()
StopScheduler ==
    /\ IF ~scheduler.created THEN UNCHANGED <<scheduler, ticks, due>>
       ELSE IF ~scheduler.running THEN UNCHANGED <<scheduler, ticks, due>>
       ELSE /\ scheduler' = Shutdown(scheduler)
            /\ ticks' = [t \in TickSlots |->
                           IF t \in InFlight THEN Cancelled(ticks[t]) ELSE ticks[t]]
            /\ due' = 0
    /\ UNCHANGED <<varsSync, varsReq, schedEnabled, fired, starts, submits,
                   skipped, schedFaults, connRows>>

\* the application starts and stops the scheduler at any time
NextLifecycle == NextSched \/ StopScheduler

SpecLifecycle == InitSched /\ [][NextLifecycle]_vars

(***************************************************************************)
(* PennylaneSyncService: per-record upsert, per-kind commit, sync_all.     *)
(***************************************************************************)
\* the next stage sync_all executes after stage i: a kind only when its
\* sync_<kind> flag is set on the connection
StageAfterMut(i, fl) == i + 1

RECURSIVE StageAfter(_, _)
StageAfter(i, fl) ==
    LET j == i + 1 IN
    IF Stages[j] \in {"lookup", "status"} \/ Stages[j] \in fl THEN j
    ELSE StageAfter(j, fl)

KindOf(rn) == IF rn.stage \in 1..Len(Stages) THEN Stages[rn.stage] ELSE "none"

InKind(rn) == rn.phase = "running" /\ KindOf(rn) \in Kinds

\* SyncResult.add_error
add_error(res, e) == [res EXCEPT !.errors = Append(@, e), !.success = FALSE]

\* customer_lookup.get(customer_id)
Get(lookup, key) == IF key \in DOMAIN lookup THEN lookup[key] ELSE Null

\* db.query(Model).filter(connection_id == ..., pennylane_id == ...)
ExistingMut(k, c, pid) == {}

Existing(k, c, pid) ==
    {row \in tables[k] : row.connection_id = c /\ row.pennylane_id = pid}

\* pennylane_id = str(data.get("id", "")): str(None) is "None"
PennylaneIdMut(rec) == IF rec.id = JsonNull THEN NoId ELSE rec.id

PennylaneId(rec) == IF rec.id = JsonNull THEN "None" ELSE rec.id

\* the item has a .get method
IsDict(rec) == "not_dict" \notin DOMAIN rec

\* billing_address.get("address") raises AttributeError (sync_customers only)
BadField(k, rec) == k = "customers" /\ "billing_address" \in DOMAIN rec

\* customer_values / invoice_values / quote_values / sub_values
\* customer_data.get("email") or customer_data.get("emails", [None])[0]
\*     if customer_data.get("emails") else None
\* Python reads it as  (A or B[0]) if C else None
Email(rec) ==
    LET email  == Get(rec, "email")
        emails == IF "emails" \in DOMAIN rec THEN rec.emails ELSE <<>> IN
    IF emails # <<>>
    THEN IF email # Null /\ email # "" THEN email ELSE emails[1]
    ELSE Null

Values(k, rec, lookup) ==
    [pennylane_id |-> PennylaneId(rec),
     name |-> rec.name,
     email |-> IF k = "customers" THEN Email(rec) ELSE Null,
     customer_id |-> IF k = "customers" THEN Null ELSE rec.cust,
     customer_name |-> IF k = "customers" \/ rec.cust = Null THEN Null
                       ELSE Get(lookup, rec.cust)]

\* one iteration of the async for loop over fetch_all_pages
ProcessRecord(rn, rec) ==
    LET k == KindOf(rn)
        res == [rn.result EXCEPT !.total_fetched = @ + 1]
        vals == Values(k, rec, rn.customer_lookup)
        ex == Existing(k, rn.conn, PennylaneId(rec)) IN
    IF PennylaneId(rec) = NoId
    THEN [rn EXCEPT !.pos = @ + 1, !.result = add_error(res, <<"missing_id", k>>)]
    ELSE IF rn.session.failed \/ BadField(k, rec)
    THEN [rn EXCEPT !.pos = @ + 1, !.result = add_error(res, <<"record_error", k>>)]
    ELSE IF ex # {}
    THEN [rn EXCEPT !.pos = @ + 1,
                    !.result = [res EXCEPT !.updated = @ + 1],
                    !.session.dirty = ((CHOOSE row \in ex : TRUE).id :> vals) @@ @]
    ELSE [rn EXCEPT !.pos = @ + 1,
                    !.result = [res EXCEPT !.created = @ + 1],
                    !.session.pending = Append(@, vals)]

\* UniqueConstraint("connection_id", "pennylane_id")
UniqueOkMut(rows) == TRUE

UniqueOk(rows) ==
    \A x, y \in rows :
        (x.connection_id = y.connection_id /\ x.pennylane_id = y.pennylane_id)
            => x.id = y.id

\* setattr(existing, key, value) for every key but connection_id
Updated(row, vals, now) ==
    [row EXCEPT !.pennylane_id = vals.pennylane_id, !.name = vals.name,
                !.email = vals.email,
                !.customer_id = vals.customer_id,
                !.customer_name = vals.customer_name, !.synced_at = now]

\* Model(**values): the row identity is assigned on insert
Inserted(id, c, vals, now) ==
    [id |-> id, connection_id |-> c, pennylane_id |-> vals.pennylane_id,
     name |-> vals.name, email |-> vals.email,
     customer_id |-> vals.customer_id,
     customer_name |-> vals.customer_name, synced_at |-> now]

\* the table after the flush of the session: UPDATEs and INSERTs
\* the columns of PennylaneInvoice that no sync sets: contract_id is NULL
\* and no_contract is False (their defaults) in a new row
WithDefaults(k, row) ==
    IF k = "invoices" THEN row @@ [contract_id |-> Null, no_contract |-> FALSE]
    ELSE row

FlushedMut(k, c, sess) ==
    {IF row.id \in DOMAIN sess.dirty THEN Updated(row, sess.dirty[row.id], clock)
     ELSE row : row \in tables[k]}
    \cup {WithDefaults(k, Inserted(nextId + i - 1, c, sess.pending[i], clock)) :
              i \in 1..(IF sess.pending = <<>> THEN 0 ELSE 1)}

Flushed(k, c, sess) ==
    {IF row.id \in DOMAIN sess.dirty THEN Updated(row, sess.dirty[row.id], clock)
     ELSE row : row \in tables[k]}
    \cup {WithDefaults(k, Inserted(nextId + i - 1, c, sess.pending[i], clock)) :
              i \in 1..Len(sess.pending)}

\* results[kind] = await self.sync_<kind>(); all_success; errors.extend
Returned(rn, res) ==
    [rn EXCEPT !.results = (KindOf(rn) :> res) @@ @,
               !.all_success = IF res.success THEN @ ELSE FALSE,
               !.errors = IF res.success THEN @ ELSE @ \o res.errors,
               !.result = NewResult,
               !.pos = 0,
               !.session = CleanSession,
               !.stage = StageAfter(rn.stage, flags[rn.conn])]

\* the loop body for one item: an item without .get makes the inner handler
\* raise as well (its message calls .get on the item), which ends the
\* traversal in the outer except Exception: add_error, rollback, return
ProcessItem(rn, rec) ==
    IF IsDict(rec) THEN ProcessRecord(rn, rec)
    ELSE Returned(rn, add_error([rn.result EXCEPT !.total_fetched = @ + 1],
                                <<"unexpected", KindOf(rn)>>))

\* the first page request of a kind goes out
Requested(rn) ==
    IF rn.pos = 0 /\ rn.result.total_fetched = 0
    THEN [rn EXCEPT !.attempted = Append(@, KindOf(rn))]
    ELSE rn

RowsOf(c) ==
    UNION {{<<k, row>> : row \in {x \in tables[k] : x.connection_id = c}} : k \in Kinds}

\* a caller constructs PennylaneSyncService(db, connection) and awaits sync_all()
StartRun(r, c) ==
    /\ run[r].phase \in {"idle", "done", "raised"}
    /\ runs < MaxRuns
    /\ runs' = runs + 1
    /\ clock' = clock + 1
    /\ run' = [run EXCEPT ![r] =
           [RunIdle EXCEPT !.phase = "running", !.conn = c,
                           !.stage = StageAfter(0, flags[c]),
                           !.began = clock + 1, !.snap = RowsOf(c),
                           !.prevClean = lastClean[c]]]
    /\ UNCHANGED <<varsReq, varsSched, flags, remote, lastSync, tables, nextId,
                   faults, lastClean>>

\* the page fetch succeeds and the loop body handles the next record
FetchRecord(r) ==
    LET rn == run[r] IN
    /\ InKind(rn)
    /\ rn.pos < Len(remote[rn.conn])
    /\ run' = [run EXCEPT ![r] =
           ProcessItem(Requested(rn), remote[rn.conn][rn.pos + 1])]
    /\ UNCHANGED <<varsReq, varsSched, flags, remote, lastSync, tables, nextId,
                   clock, runs, faults, lastClean>>

\* the existence query of a record raises: inner except Exception
RecordQueryFails(r) ==
    LET rn == Requested(run[r])
        res == [rn.result EXCEPT !.total_fetched = @ + 1] IN
    /\ InKind(rn)
    /\ rn.pos < Len(remote[rn.conn])
    /\ IsDict(remote[rn.conn][rn.pos + 1])
    /\ PennylaneId(remote[rn.conn][rn.pos + 1]) # NoId
    /\ ~rn.session.failed
    /\ faults < MaxFaults
    /\ faults' = faults + 1
    /\ run' = [run EXCEPT ![r] =
           [rn EXCEPT !.pos = @ + 1, !.faulted = TRUE,
                      !.session.failed = TRUE,
                      !.result = add_error(res, <<"record_error", KindOf(rn)>>)]]
    /\ UNCHANGED <<varsReq, varsSched, flags, remote, lastSync, tables, nextId,
                   clock, runs, lastClean>>

ApiErrors == {"PennylaneAuthError", "PennylaneRateLimitError", "PennylaneAPIError"}

\* a page fetch raises a client error: except PennylaneAPIError, rollback
FetchFailsMut(r, e) ==
    LET rn == Requested(run[r]) IN
    /\ InKind(rn)
    /\ rn.pos < Len(remote[rn.conn]) \/ rn.pos = 0
    /\ faults < MaxFaults
    /\ faults' = faults + 1
    /\ tables' = [tables EXCEPT ![KindOf(rn)] = Flushed(KindOf(rn), rn.conn, rn.session)]
    /\ nextId' = nextId + Len(rn.session.pending)
    /\ run' = [run EXCEPT ![r] =
           Returned([rn EXCEPT !.faulted = TRUE],
                    add_error(rn.result, <<"api_error", KindOf(rn), e>>))]
    /\ UNCHANGED <<varsReq, varsSched, flags, remote, lastSync,
                   clock, runs, lastClean>>

FetchFails(r, e) ==
    LET rn == Requested(run[r]) IN
    /\ InKind(rn)
    /\ rn.pos < Len(remote[rn.conn]) \/ rn.pos = 0
    /\ faults < MaxFaults
    /\ faults' = faults + 1
    /\ run' = [run EXCEPT ![r] =
           Returned([rn EXCEPT !.faulted = TRUE],
                    add_error(rn.result, <<"api_error", KindOf(rn), e>>))]
    /\ UNCHANGED <<varsReq, varsSched, flags, remote, lastSync, tables, nextId,
                   clock, runs, lastClean>>

\* the stream is exhausted: self.db.commit(); a failing flush or commit is
\* caught by except Exception, which rolls back
CommitKind(r) ==
    LET rn == Requested(run[r])
        k == KindOf(rn)
        new == Flushed(k, rn.conn, rn.session) IN
    /\ InKind(rn)
    /\ rn.pos = Len(remote[rn.conn])
    /\ IF ~rn.session.failed /\ UniqueOk(new)
       THEN /\ tables' = [tables EXCEPT ![k] = new]
            /\ nextId' = nextId + Len(rn.session.pending)
            /\ run' = [run EXCEPT ![r] = Returned(rn, rn.result)]
       ELSE /\ run' = [run EXCEPT ![r] =
                   Returned(rn, add_error(rn.result, <<"unexpected", k>>))]
            /\ UNCHANGED <<tables, nextId>>
    /\ UNCHANGED <<varsReq, varsSched, flags, remote, lastSync, clock, runs,
                   faults, lastClean>>

\* the store fails the commit of a kind
CommitFails(r) ==
    LET rn == Requested(run[r]) IN
    /\ InKind(rn)
    /\ rn.pos = Len(remote[rn.conn])
    /\ ~rn.session.failed
    /\ faults < MaxFaults
    /\ faults' = faults + 1
    /\ run' = [run EXCEPT ![r] =
           Returned([rn EXCEPT !.faulted = TRUE],
                    add_error(rn.result, <<"unexpected", KindOf(rn)>>))]
    /\ UNCHANGED <<varsReq, varsSched, flags, remote, lastSync, tables, nextId,
                   clock, runs, lastClean>>

\* lines 1004-1010: customer_lookup from every stored customer of the connection
CustomerLookupMut(c) ==
    LET named == {row \in tables["customers"] :
                     row.connection_id = c /\ row.pennylane_id # NoId
                         /\ row.name # Null /\ row.synced_at = clock} IN
    [pid \in {row.pennylane_id : row \in named} |->
        (CHOOSE row \in named : row.pennylane_id = pid).name]

CustomerLookup(c) ==
    LET named == {row \in tables["customers"] :
                     row.connection_id = c /\ row.pennylane_id # NoId
                         /\ row.name # Null} IN
    [pid \in {row.pennylane_id : row \in named} |->
        (CHOOSE row \in named : row.pennylane_id = pid).name]

BuildLookup(r) ==
    LET rn == run[r] IN
    /\ rn.phase = "running"
    /\ KindOf(rn) = "lookup"
    /\ run' = [run EXCEPT ![r] =
           [rn EXCEPT !.customer_lookup = CustomerLookup(rn.conn),
                      !.stage = StageAfter(rn.stage, flags[rn.conn])]]
    /\ UNCHANGED <<varsReq, varsSched, flags, remote, lastSync, tables, nextId,
                   clock, runs, faults, lastClean>>

\* lines 1044-1051: the handler sets the last_sync_* fields and commits on
\* the session whose transaction has just failed; that commit raises
HandleUnexpected(rn) ==
    [rn EXCEPT !.phase = "raised", !.faulted = TRUE, !.session.failed = TRUE]

\* the customer query of sync_all raises
LookupFails(r) ==
    LET rn == run[r] IN
    /\ rn.phase = "running"
    /\ KindOf(rn) = "lookup"
    /\ faults < MaxFaults
    /\ faults' = faults + 1
    /\ run' = [run EXCEPT ![r] = HandleUnexpected(rn)]
    /\ lastClean' = [lastClean EXCEPT ![rn.conn] = FALSE]
    /\ UNCHANGED <<varsReq, varsSched, flags, remote, lastSync, tables, nextId,
                   clock, runs>>

\* "\n".join(errors)
RECURSIVE JoinLines(_)
JoinLines(errs) ==
    IF Len(errs) = 0 THEN <<>>
    ELSE IF Len(errs) = 1 THEN <<errs[1]>>
    ELSE <<errs[1], <<"\n">>>> \o JoinLines(Tail(errs))

\* "success" if all_success else "partial" if results else "failed"
StatusOfMut(rn) ==
    IF rn.all_success THEN "success"
    ELSE IF rn.results = <<>> THEN "partial" ELSE "failed"

StatusOf(rn) ==
    IF rn.all_success THEN "success"
    ELSE IF rn.results # <<>> THEN "partial" ELSE "failed"

\* lines 1033-1037: the status fields are set and committed
UpdateStatus(r) ==
    LET rn == run[r] IN
    /\ rn.phase = "running"
    /\ KindOf(rn) = "status"
    /\ lastSync' = [lastSync EXCEPT ![rn.conn] =
           [at |-> clock, status |-> StatusOf(rn),
            error |-> IF rn.errors # <<>> THEN JoinLines(rn.errors) ELSE NoText]]
    /\ lastClean' = [lastClean EXCEPT ![rn.conn] = (StatusOf(rn) = "success")]
    /\ run' = [run EXCEPT ![r] = [rn EXCEPT !.phase = "done"]]
    /\ UNCHANGED <<varsReq, varsSched, flags, remote, tables, nextId, clock,
                   runs, faults>>

\* the commit of the status fields raises
StatusCommitFails(r) ==
    LET rn == run[r] IN
    /\ rn.phase = "running"
    /\ KindOf(rn) = "status"
    /\ faults < MaxFaults
    /\ faults' = faults + 1
    /\ run' = [run EXCEPT ![r] = HandleUnexpected(rn)]
    /\ lastClean' = [lastClean EXCEPT ![rn.conn] = FALSE]
    /\ UNCHANGED <<varsReq, varsSched, flags, remote, lastSync, tables, nextId,
                   clock, runs>>

Step(r) ==
    \/ FetchRecord(r)
    \/ RecordQueryFails(r)
    \/ \E e \in ApiErrors : FetchFails(r, e)
    \/ CommitKind(r)
    \/ CommitFails(r)
    \/ BuildLookup(r)
    \/ LookupFails(r)
    \/ UpdateStatus(r)
    \/ StatusCommitFails(r)

\* the scheduler syncs one connection after the other
NextSync ==
    \/ \E c \in Conns : StartRun("sched", c)
    \/ Step("sched")

\* a manual trigger may overlap the scheduler's run (no injected failure)
NextRace ==
    \/ \E r \in Runners, c \in Conns : StartRun(r, c)
    \/ \E r \in Runners : FetchRecord(r)
    \/ \E r \in Runners : CommitKind(r)
    \/ \E r \in Runners : BuildLookup(r)
    \/ \E r \in Runners : UpdateStatus(r)

InitSync ==
    /\ InitReq
    /\ InitSchedVars
    /\ schedEnabled = FALSE
    /\ connRows = [c \in Conns |-> [exists |-> TRUE, is_active |-> TRUE]]
    /\ InitSyncVars
    /\ flags \in {f \in [Conns -> SUBSET Kinds] : f["B"] = {"customers", "invoices"}}
    /\ remote \in {d \in [Conns -> DataSeqs \cup {<<RecB>>}] :
                       d["A"] \in DataSeqs /\ d["B"] = <<RecB>>}

Spec == InitSync /\ [][NextSync]_vars

\* connection A also lists records whose id is null; it syncs customers
\* and invoices at most
InitNullIds ==
    /\ InitReq
    /\ InitSchedVars
    /\ schedEnabled = FALSE
    /\ connRows = [c \in Conns |-> [exists |-> TRUE, is_active |-> TRUE]]
    /\ InitSyncVars
    /\ flags \in {f \in [Conns -> SUBSET {"customers", "invoices"}] :
                      f["B"] = {"customers", "invoices"}}
    /\ remote \in {d \in [Conns -> DataSeqsWithNull \cup {<<RecB>>}] :
                       d["A"] \in DataSeqsWithNull /\ d["B"] = <<RecB>>}

SpecNullIds == InitNullIds /\ [][NextSync]_vars

\* connection A also lists malformed items; it syncs customers and
\* invoices at most
InitMalformed ==
    /\ InitReq
    /\ InitSchedVars
    /\ schedEnabled = FALSE
    /\ connRows = [c \in Conns |-> [exists |-> TRUE, is_active |-> TRUE]]
    /\ InitSyncVars
    /\ flags \in {f \in [Conns -> SUBSET {"customers", "invoices"}] :
                      f["B"] = {"customers", "invoices"}}
    /\ remote \in {d \in [Conns -> DataSeqsMalformed \cup {<<RecB>>}] :
                       d["A"] \in DataSeqsMalformed /\ d["B"] = <<RecB>>}

SpecMalformed == InitMalformed /\ [][NextSync]_vars

\* connection A syncs customers only and lists one customer
InitEmail ==
    /\ InitReq
    /\ InitSchedVars
    /\ schedEnabled = FALSE
    /\ connRows = [c \in Conns |-> [exists |-> TRUE, is_active |-> TRUE]]
    /\ InitSyncVars
    /\ flags = [c \in Conns |-> IF c = "A" THEN {"customers"}
                                ELSE {"customers", "invoices"}]
    /\ remote \in {d \in [Conns -> {<<r>> : r \in EmailRecs \cup {RecB}}] :
                       d["A"][1] \in EmailRecs /\ d["B"] = <<RecB>>}

SpecEmail == InitEmail /\ [][NextSync]_vars

\* PUT /connections/{connection_id} (api/pennylane.py 430-472) sets the
\* sync flags of a connection; here it arrives between two runs
UpdateConnection(c, fl) ==
    /\ connRows[c].exists
    /\ \A r \in Runners : run[r].phase \in {"idle", "done", "raised"}
    /\ flags[c] # fl
    /\ flags' = [flags EXCEPT ![c] = fl]
    /\ UNCHANGED <<varsReq, varsSched, remote, lastSync, tables, nextId, clock,
                   run, runs, faults, lastClean>>

NextReconfigure ==
    \/ NextSync
    \/ \E fl \in SUBSET {"customers", "invoices"} : UpdateConnection("A", fl)

\* connection A starts with customers and invoices enabled
InitReconfigure ==
    /\ InitSync
    /\ flags["A"] = {"customers", "invoices"}

SpecReconfigure == InitReconfigure /\ [][NextReconfigure]_vars

(***************************************************************************)
(* PUT /invoices/{invoice_id}/contract (api/pennylane.py 885-931).          *)
(***************************************************************************)
\* the contracts stored, and the contract_id arguments a caller may pass
Contracts == {"K1"}

ContractArgs == {Null, "K1", "K2"}

\* lines 907-924: the three branches of the link operation
LinkedMut(row, contract_id, no_contract) ==
    IF no_contract THEN [row EXCEPT !.no_contract = TRUE]
    ELSE IF contract_id # Null
    THEN [row EXCEPT !.contract_id = contract_id, !.no_contract = FALSE]
    ELSE [row EXCEPT !.contract_id = Null, !.no_contract = FALSE]

Linked(row, contract_id, no_contract) ==
    IF no_contract THEN [row EXCEPT !.no_contract = TRUE, !.contract_id = Null]
    ELSE IF contract_id # Null
    THEN [row EXCEPT !.contract_id = contract_id, !.no_contract = FALSE]
    ELSE [row EXCEPT !.contract_id = Null, !.no_contract = FALSE]

\* 404 when the invoice, or the contract to link, is not stored; otherwise
\* the invoice is changed and committed
link_invoice_to_contract(invoice_id, contract_id, no_contract) ==
    /\ \E row \in tables["invoices"] :
          /\ row.id = invoice_id
          /\ no_contract \/ contract_id = Null \/ contract_id \in Contracts
          /\ Linked(row, contract_id, no_contract) # row
          /\ tables' = [tables EXCEPT !["invoices"] =
                 (@ \ {row}) \cup {Linked(row, contract_id, no_contract)}]
    /\ UNCHANGED <<varsReq, varsSched, connRows, flags, remote, lastSync, nextId,
                   clock, run, runs, faults, lastClean>>

NextLink ==
    \/ NextSync
    \/ \E id \in 1..(nextId - 1), cid \in ContractArgs, nc \in BOOLEAN :
          link_invoice_to_contract(id, cid, nc)

\* connection A syncs invoices only
InitLink ==
    /\ InitSync
    /\ flags["A"] = {"invoices"}

SpecLink == InitLink /\ [][NextLink]_vars

\* overlapping runs are explored for connections that sync customers and
\* invoices at most
InitRace ==
    /\ InitSync
    /\ flags["A"] \subseteq {"customers", "invoices"}

SpecRace == InitRace /\ [][NextRace]_vars

(***************************************************************************)
(* POST /connections/{connection_id}/sync (api/pennylane.py 568-657).      *)
(* run["manual"].http is the status code of the answer, 0 while there is   *)
(* none.                                                                   *)
(***************************************************************************)
Answered(rn) == rn.phase = "idle" \/ rn.http # 0

\* lines 580-594: 404 for an unknown connection, 400 for an inactive one
SyncConnectionRejected(c) ==
    /\ Answered(run["manual"])
    /\ ~connRows[c].exists \/ ~connRows[c].is_active
    /\ run' = [run EXCEPT !["manual"] =
           [RunIdle EXCEPT !.conn = c,
                           !.http = IF ~connRows[c].exists THEN 404 ELSE 400]]
    /\ UNCHANGED <<varsReq, varsSched, flags, remote, lastSync, tables, nextId,
                   clock, runs, faults, lastClean>>

\* lines 598-600: sync_service = PennylaneSyncService(db, connection);
\* results = await sync_service.sync_all()
SyncConnection(c) ==
    /\ Answered(run["manual"])
    /\ connRows[c].exists /\ connRows[c].is_active
    /\ StartRun("manual", c)

\* the exception that left sync_all, as the handlers of lines 638-657 see
\* it: the store's error raised by the commit of sync_all's own handler
Escaped(rn) == "Exception"

\* the status code sync_connection answers with
HttpStatus(rn) ==
    IF rn.phase = "done" THEN 200
    ELSE IF Escaped(rn) = "PennylaneAuthError" THEN 401
    ELSE IF Escaped(rn) \in ApiErrors THEN 502
    ELSE 500

\* lines 602-657: the summary is returned, or an HTTPException is raised
SyncConnectionAnswers ==
    /\ run["manual"].phase \in {"done", "raised"}
    /\ run["manual"].http = 0
    /\ run' = [run EXCEPT !["manual"].http = HttpStatus(run["manual"])]
    /\ UNCHANGED <<varsReq, varsSched, flags, remote, lastSync, tables, nextId,
                   clock, runs, faults, lastClean>>

NextManual ==
    \/ \E c \in Conns : SyncConnectionRejected(c)
    \/ \E c \in Conns : SyncConnection(c)
    \/ Step("manual")
    \/ SyncConnectionAnswers

\* connection B may be inactive or deleted
InitManual ==
    /\ InitReq
    /\ InitSchedVars
    /\ schedEnabled = FALSE
    /\ connRows \in {cr \in [Conns -> [exists : BOOLEAN, is_active : BOOLEAN]] :
                        /\ cr["A"] = [exists |-> TRUE, is_active |-> TRUE]
                        /\ cr["B"].is_active => cr["B"].exists}
    /\ InitSyncVars
    /\ flags \in {f \in [Conns -> SUBSET {"customers", "invoices"}] :
                      f["B"] = {"customers", "invoices"}}
    /\ remote \in {d \in [Conns -> DataSeqs \cup {<<RecB>>}] :
                       d["A"] \in DataSeqs /\ d["B"] = <<RecB>>}

SpecManual == InitManual /\ [][NextManual]_vars

(***************************************************************************)
(* Properties of the scheduler.                                            *)
(***************************************************************************)
\* C5: at most one run of sync_all_connections is in flight; every wake-up
\* of the scheduler either starts one run or skips (never both, never more
\* than one run, nothing is kept for later), so the runs started never
\* exceed the wake-ups that found the job idle.
C5_AtMostOneTickInFlight ==
    /\ Cardinality(InFlight) <= 1
    /\ \A t \in TickSlots : ticks[t].runsLeft <= 1
    /\ starts <= submits
    /\ starts + skipped <= fired

\* C5 witness: a run time came due during a run and was skipped, and a
\* later run time started the second run.
C5_Witness ==
    /\ skipped >= 1
    /\ starts = 2
    /\ Cardinality(InFlight) = 1

Raised(o) == o \in {"load_raised", "sync_raised"}

\* C6: a finished tick has visited every connection it loaded, in order:
\* each one was handed to sync_all or skipped as missing unless its own
\* re-fetch raised; results holds exactly the connections whose sync_all
\* returned; no session is left open, and between two connections the
\* previous connection's session is closed.
C6_TickVisitsEveryConnection ==
    \A t \in TickSlots :
        LET tk == ticks[t] IN
        /\ tk.pc = "done" =>
              /\ Len(tk.outcome) = Len(tk.conns)
              /\ tk.open = {}
              /\ tk.results =
                    {tk.conns[i] : i \in {j \in 1..Len(tk.conns) : tk.outcome[j] = "synced"}}
        /\ tk.pc = "fetch" =>
              /\ Len(tk.outcome) = tk.i - 1
              /\ "sync_db" \notin tk.open
        /\ tk.pc = "sync" => Len(tk.outcome) = tk.i - 1

\* C6 witness: the first connection of a tick raised and the second one
\* was synced all the same.
C6_Witness ==
    \E t \in TickSlots :
        /\ ticks[t].pc = "done"
        /\ Len(ticks[t].conns) = 2
        /\ Raised(ticks[t].outcome[1])
        /\ ticks[t].outcome[2] = "synced"

(***************************************************************************)
(* Properties of the sync service.                                         *)
(***************************************************************************)
Finished(rn) == rn.phase \in {"done", "raised"}

WithoutSyncedAt(rows) ==
    {<<kr[1], [f \in DOMAIN kr[2] \ {"synced_at"} |-> kr[2][f]]>> : kr \in rows}

\* a run that follows a fully successful run of the same connection and
\* met no failure itself (the remote data never changes)
SecondCleanRun(rn) == rn.phase = "done" /\ rn.prevClean /\ ~rn.faulted

SecondRunCounts(rn) ==
    \A k \in flags[rn.conn] :
        /\ k \in DOMAIN rn.results
        /\ rn.results[k].total_fetched = Len(remote[rn.conn])
        /\ rn.results[k].created = 0
        /\ rn.results[k].updated = rn.results[k].total_fetched

\* C1 (as claimed): the second of two runs over unchanged remote data
\* reports created = 0 and updated = total_fetched for every enabled kind,
\* inserts no row and changes no stored field.
C1_SecondRunChangesNothing ==
    \A r \in Runners :
        SecondCleanRun(run[r]) =>
            /\ SecondRunCounts(run[r])
            /\ RowsOf(run[r].conn) = run[r].snap

\* C1 (amended): as above, except that the second run refreshes synced_at
\* of every row it updates; every other field and the set of rows are
\* unchanged.
C1_SecondRunRefreshesOnly ==
    \A r \in Runners :
        SecondCleanRun(run[r]) =>
            /\ SecondRunCounts(run[r])
            /\ WithoutSyncedAt(RowsOf(run[r].conn)) = WithoutSyncedAt(run[r].snap)
            /\ \A kr \in RowsOf(run[r].conn) :
                   kr[1] \in flags[run[r].conn] => kr[2].synced_at = run[r].began

\* C1 witness: a second run over two stored customers and two stored
\* invoices has finished.
C1_Witness ==
    \E r \in Runners :
        /\ SecondCleanRun(run[r])
        /\ {"customers", "invoices"} \subseteq DOMAIN run[r].results
        /\ run[r].results["invoices"].updated = 2
        /\ Cardinality(run[r].snap) >= 4

\* C2: no entity table holds two rows with the same (connection id, remote
\* id), and no two rows share an identity.
C2_UniqueKeyPerConnection ==
    \A k \in Kinds : \A x, y \in tables[k] :
        /\ (x.connection_id = y.connection_id /\ x.pennylane_id = y.pennylane_id)
              => x = y
        /\ x.id = y.id => x = y

\* C2 witness: remote id "1" is stored once under A and once under B, as
\* two rows with their own names.
C2_Witness ==
    \E x, y \in tables["customers"] :
        /\ x.connection_id = "A" /\ y.connection_id = "B"
        /\ x.pennylane_id = "1" /\ y.pennylane_id = "1"
        /\ x.id # y.id /\ x.name = "Acme" /\ y.name = "Bolt"

KindOrder == <<"customers", "invoices", "quotes", "subscriptions">>

RECURSIVE ErrorsFrom(_, _)
ErrorsFrom(results, i) ==
    IF i > Len(KindOrder) THEN <<>>
    ELSE (IF KindOrder[i] \in DOMAIN results THEN results[KindOrder[i]].errors
          ELSE <<>>) \o ErrorsFrom(results, i + 1)

AllErrors(rn) == ErrorsFrom(rn.results, 1)

AllKindsSucceeded(rn) ==
    \A k \in flags[rn.conn] : k \in DOMAIN rn.results /\ rn.results[k].success

StatusMatchesResults(rn) ==
    LET st == lastSync[rn.conn] IN
    /\ (st.status = "success") <=> AllKindsSucceeded(rn)
    /\ (rn.results # <<>> /\ \E k \in DOMAIN rn.results : ~rn.results[k].success)
          => st.status = "partial"
    /\ (rn.phase = "raised" /\ rn.results = <<>>) => st.status = "failed"
    /\ st.error = IF AllErrors(rn) = <<>> THEN NoText ELSE JoinLines(AllErrors(rn))

\* C3 (as claimed): when sync_all has finished, last_sync_status is success
\* iff every enabled kind succeeded, partial if a kind had errors, failed if
\* the run aborted before any kind completed, and last_sync_error is the
\* newline-joined list of all errors of all kinds (null when there is none).
C3_StatusAggregatesResults ==
    Finished(run["sched"]) => StatusMatchesResults(run["sched"])

\* C4 (as claimed): every finished run has committed last_sync_at,
\* last_sync_status and last_sync_error of its own, and no exception has
\* escaped sync_all.
C4_StatusCommittedEveryRun ==
    Finished(run["sched"]) =>
        /\ run["sched"].phase = "done"
        /\ lastSync[run["sched"].conn].at = run["sched"].began

HasApiError(res) == \E i \in 1..Len(res.errors) : res.errors[i][1] = "api_error"

\* C7 (as claimed): once a kind of a run has failed with a client error, no
\* later kind of that run is requested.
C7_ClientErrorAbortsRun ==
    \A i \in 1..Len(run["sched"].attempted) :
        LET k == run["sched"].attempted[i] IN
        (k \in DOMAIN run["sched"].results /\ HasApiError(run["sched"].results[k]))
            => i = Len(run["sched"].attempted)

DependentKinds == Kinds \ {"customers"}

\* the position of the lookup in sync_all
LookupStage == CHOOSE i \in 1..Len(Stages) : Stages[i] = "lookup"

\* every stored customer of the connection that has an id and a name
NamedCustomers(c) ==
    {row \in tables["customers"] :
        row.connection_id = c /\ row.pennylane_id # NoId /\ row.name # Null}

LookupHoldsStoredNames(rn) ==
    /\ DOMAIN rn.customer_lookup = {row.pennylane_id : row \in NamedCustomers(rn.conn)}
    /\ \A row \in NamedCustomers(rn.conn) :
           rn.customer_lookup[row.pennylane_id] = row.name

LookupPassedOn(rn) ==
    \A k \in DependentKinds : \A row \in tables[k] :
        (row.connection_id = rn.conn /\ row.synced_at = rn.began) =>
            row.customer_name = IF row.customer_id = Null THEN Null
                                ELSE Get(rn.customer_lookup, row.customer_id)

\* C14: in a run of sync_all the customer sync (when enabled) has returned
\* before the lookup is built, no invoice, quote or subscription request is
\* sent before the lookup is built, the lookup holds the name of every
\* stored customer of the connection, and the rows the dependent syncs
\* write take their customer_name from it.
C14_CustomersThenLookupThenDependents ==
    LET rn == run["sched"] IN
    rn.phase # "idle" =>
        /\ \A i \in 1..Len(rn.attempted) :
               /\ rn.attempted[i] \in DependentKinds => rn.stage > LookupStage
               /\ rn.attempted[i] = "customers" => i = 1
        /\ (rn.stage >= LookupStage /\ "customers" \in flags[rn.conn])
               => "customers" \in DOMAIN rn.results
        /\ rn.stage > LookupStage => LookupHoldsStoredNames(rn)
        /\ LookupPassedOn(rn)

\* C14 witness: the customer sync of this run failed on its first page, the
\* lookup was built from the customers an earlier run stored, and an invoice
\* written by this run carries a name from it.
C14_Witness ==
    LET rn == run["sched"] IN
    /\ rn.phase = "done"
    /\ "customers" \in DOMAIN rn.results
    /\ ~rn.results["customers"].success
    /\ rn.results["customers"].total_fetched = 0
    /\ \E row \in tables["invoices"] :
          /\ row.connection_id = rn.conn /\ row.synced_at = rn.began
          /\ row.customer_name # Null

\* the remote identifier of a record is absent: no "id" key, or a null id
IdAbsent(rec) == rec.id = NoId \/ rec.id = JsonNull

MissingIds(recs) == Cardinality({i \in 1..Len(recs) : IdAbsent(recs[i])})

DistinctIds(recs) ==
    \A i, j \in 1..Len(recs) :
        (~IdAbsent(recs[i]) /\ ~IdAbsent(recs[j]) /\ recs[i].id = recs[j].id) => i = j

\* a traversal that met no failure of a page fetch or of the store, over
\* records whose ids, where present, are distinct
PlainTraversal(rn, k) ==
    /\ k \in DOMAIN rn.results
    /\ ~rn.faulted
    /\ DistinctIds(remote[rn.conn])

\* C15 (as claimed): a traversal of n records of which k have no remote
\* identifier returns total_fetched = n, created + updated = n - k, exactly
\* k errors, and success = false iff k > 0.
C15_MissingIdSkipsRecord ==
    LET rn == run["sched"] IN
    \A kind \in Kinds :
        PlainTraversal(rn, kind) =>
            LET res == rn.results[kind]
                n == Len(remote[rn.conn])
                k == MissingIds(remote[rn.conn]) IN
            /\ res.total_fetched = n
            /\ res.created + res.updated = n - k
            /\ Len(res.errors) = k
            /\ res.success <=> (k = 0)

RowsOfKind(rows, k) == {kr \in rows : kr[1] = k}

\* C16: the result map sync_all returns has a key for exactly the enabled
\* kinds; during a run no request is sent for a disabled kind, no result is
\* recorded for it and its rows stay as they were when the run began.
C16_OnlyEnabledKinds ==
    LET rn == run["sched"] IN
    rn.phase # "idle" =>
        /\ rn.phase = "done" => DOMAIN rn.results = flags[rn.conn]
        /\ DOMAIN rn.results \subseteq flags[rn.conn]
        /\ \A i \in 1..Len(rn.attempted) : rn.attempted[i] \in flags[rn.conn]
        /\ \A k \in Kinds \ flags[rn.conn] :
               RowsOfKind(RowsOf(rn.conn), k) = RowsOfKind(rn.snap, k)

\* C16 witness: a run of a connection with only invoices and subscriptions
\* enabled has returned after writing rows of both kinds.
C16_Witness ==
    LET rn == run["sched"] IN
    /\ rn.phase = "done"
    /\ flags[rn.conn] = {"invoices", "subscriptions"}
    /\ rn.attempted = <<"invoices", "subscriptions">>
    /\ rn.results["invoices"].created > 0
    /\ RowsOfKind(RowsOf(rn.conn), "subscriptions") # {}
    /\ RowsOfKind(RowsOf(rn.conn), "customers") = {}

\* rows of kind k the run has put into the committed store
WrittenBy(rn, k, tbl) ==
    {row \in tbl[k] : row.connection_id = rn.conn /\ row.synced_at = rn.began}

\* C20: the committed rows change only in the step in which a kind, having
\* traversed its whole remote set, commits and returns, and only the table
\* of that kind changes; a kind whose traversal was ended by a failed page
\* fetch has committed none of the rows it processed.
C20_OneCommitAfterTraversal ==
    [][LET rn == run["sched"]
           after == run'["sched"] IN
       /\ tables' # tables =>
             /\ InKind(rn)
             /\ rn.pos = Len(remote[rn.conn])
             /\ KindOf(rn) \in DOMAIN after.results
             /\ \A k \in Kinds \ {KindOf(rn)} : tables'[k] = tables[k]
       /\ \A k \in DOMAIN after.results :
             HasApiError(after.results[k]) => WrittenBy(after, k, tables') = {}]_vars

\* C20 witness: the page fetch of a customer traversal failed after a
\* record of an earlier page had been processed as created, and no customer
\* row of the connection is stored.
C20_Witness ==
    LET rn == run["sched"] IN
    /\ "customers" \in DOMAIN rn.results
    /\ HasApiError(rn.results["customers"])
    /\ rn.results["customers"].created >= 1
    /\ RowsOfKind(RowsOf(rn.conn), "customers") = {}

\* the client errors recorded in the results of a run
ApiErrorsOf(rn) ==
    {e \in ApiErrors :
        \E k \in DOMAIN rn.results : \E i \in 1..Len(rn.results[k].errors) :
            rn.results[k].errors[i] = <<"api_error", k, e>>}

\* C17 (as claimed): a manual sync answers 401 when a request of the run
\* was rejected with PennylaneAuthError, 502 when one failed with
\* PennylaneAPIError or PennylaneRateLimitError, and 200 with the summary
\* only when no request of the run failed in such a way.
C17_ManualSyncMapsClientErrors ==
    LET rn == run["manual"] IN
    (rn.phase \in {"done", "raised"} /\ rn.http # 0) =>
        /\ "PennylaneAuthError" \in ApiErrorsOf(rn) => rn.http = 401
        /\ (ApiErrorsOf(rn) # {} /\ "PennylaneAuthError" \notin ApiErrorsOf(rn))
              => rn.http = 502
        /\ rn.http = 200 => ApiErrorsOf(rn) = {}

\* C18 (as claimed): stop_scheduler returns only after an in-flight tick has
\* run to completion: no tick is ever cancelled mid-run, and while the
\* scheduler is stopped no tick is in flight.
C18_StopDrainsInFlightTick ==
    /\ \A t \in TickSlots : ticks[t].pc # "cancelled"
    /\ ~scheduler.running => InFlight = {}

SchedulerStopped(sch) == ~sch.created /\ ~sch.running /\ sch.jobs = 0

SchedulerRunning(sch) == sch.created /\ sch.running /\ sch.jobs = 1

\* C19: the scheduler is either stopped or running with exactly one job,
\* and it runs only when the enable flag is on; no second scheduler is ever
\* running; the only changes of its state are stopped -> running (start)
\* and running -> stopped (stop), so start on a running scheduler and stop
\* on a stopped one change nothing.
C19_StartStopStateMachine ==
    [][/\ SchedulerStopped(scheduler') \/ SchedulerRunning(scheduler')
       /\ scheduler'.running => schedEnabled
       /\ scheduler'.orphans = 0
       /\ scheduler' # scheduler =>
             \/ SchedulerStopped(scheduler) /\ SchedulerRunning(scheduler')
             \/ SchedulerRunning(scheduler) /\ SchedulerStopped(scheduler')]_vars

\* C19 witness: the scheduler was started, stopped during a tick and
\* started again, and runs with its one job.
C19_Witness ==
    /\ SchedulerRunning(scheduler)
    /\ \E t \in TickSlots : ticks[t].pc = "cancelled"
    /\ due > 0

\* the name of the customer row stored for connection c under remote id cid
StoredCustomerName(c, cid) ==
    LET rows == {row \in tables["customers"] :
                    row.connection_id = c /\ row.pennylane_id = cid} IN
    IF rows = {} THEN Null ELSE (CHOOSE row \in rows : TRUE).name

\* the last record of the traversal that carries remote id id
LastWithId(recs, id) ==
    LET at == {i \in 1..Len(recs) : recs[i].id = id} IN
    recs[CHOOSE i \in at : \A j \in at : j <= i]

\* C23: a row an invoice, quote or subscription sync wrote for a record that
\* references customer c carries customer_id c and, as customer_name, the
\* name of the customer row stored for the same connection under c (null
\* when there is none), also when the connection does not sync customers;
\* the result of that sync holds no error but those of records without id.
C23_DisplayNameFromStoredCustomer ==
    LET rn == run["sched"] IN
    \A k \in DependentKinds : \A row \in WrittenBy(rn, k, tables) :
        LET rec == LastWithId(remote[rn.conn], row.pennylane_id) IN
        /\ row.customer_id = rec.cust
        /\ rec.cust # Null =>
               row.customer_name = StoredCustomerName(rn.conn, rec.cust)
        /\ \A i \in 1..Len(rn.results[k].errors) :
               rn.results[k].errors[i][1] = "missing_id"

\* C23 witness: customer sync was switched off after an earlier run had
\* stored customers; the next run wrote one invoice with the stored name of
\* its customer and one whose customer is stored without a name.
C23_Witness ==
    LET rn == run["sched"] IN
    /\ rn.phase = "done"
    /\ "customers" \notin flags[rn.conn]
    /\ \E row \in WrittenBy(rn, "invoices", tables) : row.customer_name # Null
    /\ \E row \in WrittenBy(rn, "invoices", tables) :
          row.customer_id # Null /\ row.customer_name = Null

\* the first non-empty candidate among "email" and the first of "emails"
FirstNonEmptyEmail(rec) ==
    LET email  == Get(rec, "email")
        emails == IF "emails" \in DOMAIN rec THEN rec.emails ELSE <<>> IN
    IF email # Null /\ email # "" THEN email
    ELSE IF emails # <<>> THEN emails[1]
    ELSE Null

\* C24 (as claimed): every customer row a run wrote carries as email the
\* first non-empty candidate among the record's "email" and the first
\* element of its "emails" list, and null when it has neither.
C24_EmailFirstNonEmptyCandidate ==
    LET rn == run["sched"] IN
    \A row \in WrittenBy(rn, "customers", tables) :
        row.email = FirstNonEmptyEmail(LastWithId(remote[rn.conn], row.pennylane_id))

\* the rows of kind k the run inserted, and the stored rows it modified
InsertedBy(rn, k) ==
    {row \in WrittenBy(rn, k, tables) :
        ~\E kr \in rn.snap : kr[1] = k /\ kr[2].id = row.id}

ModifiedBy(rn, k) ==
    {row \in WrittenBy(rn, k, tables) :
        \E kr \in rn.snap : kr[1] = k /\ kr[2].id = row.id}

\* C25 (as claimed): the result of every kind that has returned counts as
\* created the rows the sync inserted into the committed store and as
\* updated the stored rows it modified there.
C25_CountsMatchCommittedRows ==
    LET rn == run["sched"] IN
    \A k \in DOMAIN rn.results :
        /\ rn.results[k].created = Cardinality(InsertedBy(rn, k))
        /\ rn.results[k].updated = Cardinality(ModifiedBy(rn, k))

\* the remote ids that two records of the traversal carry
RepeatedIds(recs) ==
    {recs[i].id : i \in {i \in 1..Len(recs) :
        recs[i].id # NoId /\ \E j \in 1..Len(recs) : j # i /\ recs[j].id = recs[i].id}}

\* C26 (as claimed): a traversal in which two records carry the same remote
\* id, not stored before, still commits: the kind succeeds, one row is
\* created for that id and carries the values of the second record.
C26_RepeatedIdStillCommits ==
    LET rn == run["sched"] IN
    \A k \in DOMAIN rn.results : \A id \in RepeatedIds(remote[rn.conn]) :
        (~rn.faulted /\ ~\E kr \in rn.snap : kr[1] = k /\ kr[2].pennylane_id = id)
            => /\ rn.results[k].success
               /\ rn.results[k].created = 1
               /\ rn.results[k].updated = 1
               /\ \E row \in InsertedBy(rn, k) :
                      /\ row.pennylane_id = id
                      /\ row.name = LastWithId(remote[rn.conn], id).name

\* kind k of run r returns in this step
KindReturns(r, k) == k \notin DOMAIN run[r].results /\ k \in DOMAIN run'[r].results

HasUnexpected(res) == \E i \in 1..Len(res.errors) : res.errors[i][1] = "unexpected"

\* every record of the traversal that has an id is stored as the commit of
\* this step left it
AllWritten(r, k) ==
    LET recs == remote[run[r].conn] IN
    \A i \in 1..Len(recs) : recs[i].id # NoId =>
        \E row \in tables'[k] :
            /\ row.connection_id = run[r].conn
            /\ row.pennylane_id = recs[i].id
            /\ row.synced_at = clock
            /\ row.name = LastWithId(recs, recs[i].id).name

OverlapStep ==
    /\ \A k \in Kinds : tables'[k] # tables[k] => \E r \in Runners : KindReturns(r, k)
    /\ \A r \in Runners :
          /\ run'[r].phase # "raised"
          /\ \A k \in Kinds : KindReturns(r, k) =>
                LET res == run'[r].results[k] IN
                \/ tables' = tables /\ HasUnexpected(res) /\ ~res.success
                \/ /\ ~HasUnexpected(res)
                   /\ AllWritten(r, k)
                   /\ \A k2 \in Kinds \ {k} : tables'[k2] = tables[k2]

OneRowPerKey ==
    \A k \in Kinds : \A x, y \in tables[k] :
        (x.connection_id = y.connection_id /\ x.pennylane_id = y.pennylane_id) => x = y

\* C27: when a manual sync and a scheduled sync of one connection overlap,
\* the step in which a kind of either run returns stores every record of
\* its traversal or changes nothing, and in the latter case the kind is
\* reported as failed; no run raises out of sync_all, and the store holds
\* at most one row per (connection id, remote id).
C27_OverlappingRunsCommitAllOrNothing ==
    [](OneRowPerKey) /\ [][OverlapStep]_vars

\* C27 witness: both runs of connection A have finished; one of them lost
\* the conflict on customers and reports that kind as failed, the other
\* one stored the customer.
C27_Witness ==
    /\ run["sched"].conn = "A" /\ run["manual"].conn = "A"
    /\ run["sched"].phase = "done" /\ run["manual"].phase = "done"
    /\ \A r \in Runners : "customers" \in DOMAIN run[r].results
    /\ \E r1, r2 \in Runners :
          /\ HasUnexpected(run[r1].results["customers"])
          /\ run[r2].results["customers"].success
          /\ run[r2].results["customers"].created = 1
    /\ \E row \in tables["customers"] : row.connection_id = "A"

Retryable(resp) == resp.kind = "timeout" \/ IsResponse(resp, {429, 503})

\* C28: one call of _request makes at most MAX_RETRIES + 1 = 4 HTTP
\* attempts whatever mix of 429, 503 and timeouts it meets, every attempt
\* but the first having used up one retry of the single counter, and the
\* call always ends: it returns the body or raises.
C28_SharedRetryBudgetAndTermination ==
    /\ [](/\ Len(req.log) <= MAX_RETRIES + 1
          /\ req.retry_count <= MAX_RETRIES
          /\ Len(req.waits) <= MAX_RETRIES
          /\ req.pc = "sending" => Len(req.log) = req.retry_count
          /\ req.pc \in {"sleeping", "returned", "raised"}
                => Len(req.log) = req.retry_count + 1
          /\ \A i \in 1..Len(req.log) : i < Len(req.log) => Retryable(req.log[i]))
    /\ (req.pc = "sending") ~> (req.pc \in {"returned", "raised"})

\* C28 witness: a 429, a 503 and a timeout used up the three retries and
\* the 4th attempt, a 429, ended the call with an exception.
C28_Witness ==
    /\ Len(req.log) = 4
    /\ IsResponse(req.log[1], {429})
    /\ IsResponse(req.log[2], {503})
    /\ req.log[3].kind = "timeout"
    /\ IsResponse(req.log[4], {429})
    /\ req.pc = "raised"
    /\ req.exc = "PennylaneRateLimitError"

\* tick t hands its current connection to sync_all in this step
StartsSyncAll(t) == ticks[t].pc = "fetch" /\ ticks'[t].pc = "sync"

\* C29 (as claimed): whenever a tick of the scheduler starts sync_all for a
\* connection, that connection is active at that moment, also when it was
\* deactivated after the tick loaded its list.
C29_SchedulerSyncsOnlyActive ==
    [][\A t \in TickSlots :
          StartsSyncAll(t) => connRows[ticks[t].conns[ticks[t].i]].is_active]_vars

\* the stored invoice keeps its identity, its connection, its remote id,
\* its contract link and its flag in this step
InvoiceLinkKept(row) ==
    \E row2 \in tables'["invoices"] :
        /\ row2.id = row.id
        /\ row2.connection_id = row.connection_id
        /\ row2.pennylane_id = row.pennylane_id
        /\ row2.contract_id = row.contract_id
        /\ row2.no_contract = row.no_contract

\* the step is one of the link operation: no run of sync_all moves and the
\* synced columns of every invoice stay as they are
LinkStep ==
    /\ run' = run
    /\ \A row \in tables["invoices"] : \E row2 \in tables'["invoices"] :
          /\ row2.id = row.id
          /\ [row2 EXCEPT !.contract_id = Null, !.no_contract = FALSE]
                = [row EXCEPT !.contract_id = Null, !.no_contract = FALSE]

\* C30: every step of a sync leaves the id, the connection id, the remote
\* id, the contract link and the no_contract flag of every stored invoice
\* as they were; a step that changes a link or a flag is one of the link
\* operation; and no stored invoice has both a contract link and
\* no_contract = true.
C30_SyncKeepsContractLink ==
    /\ [](\A row \in tables["invoices"] : ~(row.contract_id # Null /\ row.no_contract))
    /\ [][(\A row \in tables["invoices"] : InvoiceLinkKept(row)) \/ LinkStep]_vars

\* C30 witness: an invoice that was linked to contract K1 when the run began
\* has been re-synced by the run and is still linked to K1.
C30_Witness ==
    LET rn == run["sched"] IN
    /\ rn.phase = "done"
    /\ \E row \in ModifiedBy(rn, "invoices") :
          /\ row.contract_id = "K1"
          /\ \E kr \in rn.snap : kr[1] = "invoices" /\ kr[2].id = row.id
                                   /\ kr[2].contract_id = "K1"

\* processing the item raises an exception: it is no object, or (for a
\* customer) its billing_address is no object
RaisesInProcessing(k, rec) ==
    ~IsDict(rec) \/ (rec.id # NoId /\ "billing_address" \in DOMAIN rec /\ k = "customers")

Sound(k, rec) == IsDict(rec) /\ rec.id # NoId /\ ~RaisesInProcessing(k, rec)

CountIn(recs, P(_)) == Cardinality({i \in 1..Len(recs) : P(recs[i])})

DistinctSoundIds(k, recs) ==
    \A i, j \in 1..Len(recs) :
        (Sound(k, recs[i]) /\ Sound(k, recs[j]) /\ recs[i].id = recs[j].id) => i = j

\* C21 (as claimed): in a traversal without page-fetch or store failure,
\* every item whose processing raises adds one error, the traversal goes on
\* to the last item, and every item processed without error is stored by
\* the kind's commit.
C21_RecordErrorIsolated ==
    LET rn == run["sched"] IN
    \A k \in DOMAIN rn.results :
        (~rn.faulted /\ DistinctSoundIds(k, remote[rn.conn])
            /\ \E i \in 1..Len(remote[rn.conn]) : RaisesInProcessing(k, remote[rn.conn][i])) =>
            LET res == rn.results[k]
                recs == remote[rn.conn]
                Bad(rec) == RaisesInProcessing(k, rec) \/ rec.id = NoId
                Good(rec) == Sound(k, rec) IN
            /\ res.total_fetched = Len(recs)
            /\ Len(res.errors) = CountIn(recs, Bad)
            /\ ~res.success
            /\ Cardinality(WrittenBy(rn, k, tables)) = CountIn(recs, Good)

====
